---------------------------- MODULE Spec2Model ----------------------------
(***************************************************************************)
(* Model of the multimodal RAG engine of src/main.py: content-addressed    *)
(* blob storage, the hash -> record metadata index with its JSON snapshot, *)
(* the extractors' degradation to placeholder strings, text chunking, and  *)
(* the linear keyword search with snippets.                                *)
(*                                                                         *)
(* Strings and byte strings are sequences of one-character strings.        *)
(* Every process that imports main.py owns one MultimodalRAG instance      *)
(* (rag_system, main.py:358); the processes share one storage directory.   *)
(***************************************************************************)
EXTENDS Integers, Sequences, FiniteSets, TLC

VARIABLES
    blobs,      \* the files under documents/, videos/, audio/: path -> bytes
    snapshot,   \* the file metadata.json
    metadata,   \* metadata[i]: self.metadata of process i (an ordered dict)
    pc,         \* pc[i]: where process i stands
    cur,        \* cur[i]: the locals of the ingestion process i is running
    nops,       \* number of accepted uploads so far (bounded by MaxOps)
    ingested,   \* the (content, kind) pairs whose ingestion has returned
    last        \* the last call that returned: its request and its response

vars == <<blobs, snapshot, metadata, pc, cur, nops, ingested, last>>

----------------------------------------------------------------------------
(* Bounds of the model                                                     *)

\* number of processes sharing the storage directory
NumInst == 2

\* number of uploads accepted over a behaviour
MaxOps == 2

\* longest query string the search claims enumerate
MaxQueryLen == 2

\* longest text handed to _chunk_text
MaxChunkTextLen == 6

\* largest chunk_size handed to _chunk_text
MaxChunkSize == 4

\* longest text handed to _get_snippet
MaxSnippetTextLen == 4

\* largest context_size handed to _get_snippet
MaxContextSize == 3

Inst == 1..NumInst

----------------------------------------------------------------------------
(* Program constants                                                       *)

\* text_content[:1000]
TextPreviewLen == 1000

\* text_content[:200], metadata['transcription'][:200]
ResponsePreviewLen == 200

\* _chunk_text(self, text, chunk_size = 500)
DefaultChunkSize == 500

\* _get_snippet(self, text, query, context_size = 100)
DefaultContextSize == 100

\* frames_count = min(10, int(duration))
MaxFrames == 10

----------------------------------------------------------------------------
(* Python string primitives                                                *)

UpperCase ==
    <<"A", "B", "C", "D", "E", "F", "G", "H", "I", "J", "K", "L", "M",
      "N", "O", "P", "Q", "R", "S", "T", "U", "V", "W", "X", "Y", "Z">>

LowerCase ==
    <<"a", "b", "c", "d", "e", "f", "g", "h", "i", "j", "k", "l", "m",
      "n", "o", "p", "q", "r", "s", "t", "u", "v", "w", "x", "y", "z">>

\* the upper-case letters
UpperLetters ==
    {UpperCase[k] : k \in 1..Len(UpperCase)}

\* the lower-case letter of every upper-case letter
LowerTable ==
    [c \in UpperLetters |->
        LowerCase[CHOOSE k \in 1..Len(UpperCase) : UpperCase[k] = c]]

\* c.lower() for one character
LowerChar(c) ==
    IF c \in UpperLetters THEN LowerTable[c] ELSE c

\* a character outside ASCII is written by its code point; U+0130 is the
\* capital I with a dot above, whose lower case is two characters: i and
\* the combining dot U+0307
DottedI ==
    "U+0130"

CombiningDot ==
    "U+0307"

RECURSIVE LowerFrom(_, _)
\* s.lower() from position k on, character by character
LowerFrom(s, k) ==
    IF k > Len(s) THEN <<>>
    ELSE (IF s[k] = DottedI THEN <<"i", CombiningDot>> ELSE <<LowerChar(s[k])>>)
         \o LowerFrom(s, k + 1)

\* s.lower()
Lower(s) ==
    IF \A k \in 1..Len(s) : s[k] # DottedI
    THEN LET lowered == [k \in 1..Len(s) |-> LowerChar(s[k])]
         IN  SubSeq(lowered, 1, Len(s))
    ELSE LowerFrom(s, 1)

Min(a, b) ==
    IF a < b THEN a ELSE b

Max(a, b) ==
    IF a > b THEN a ELSE b

\* s[a:b] for 0 <= a, 0 <= b (Python's clamped, 0-based, half-open slice)
Slice(s, a, b) ==
    SubSeq(s, Min(a, Len(s)) + 1, Min(b, Len(s)))

RECURSIVE FindFrom(_, _, _)
\* the 0-based index of the first occurrence of q in s at or after k, or -1
FindFrom(s, q, k) ==
    IF k + Len(q) > Len(s) THEN -1
    ELSE IF \A j \in 1..Len(q) : s[k + j] = q[j] THEN k
    ELSE FindFrom(s, q, k + 1)

\* s.find(q): the 0-based index of the first occurrence of q in s, or -1
Find(s, q) ==
    FindFrom(s, q, 0)

\* q in s
StrIn(q, s) ==
    Find(s, q) # -1

\* str.split() separators
IsSpace(c) ==
    c \in {" ", "\n", "\t", "\r"}

RECURSIVE SplitFrom(_, _, _, _)
\* words of s from position k on; w is the word being read
SplitFrom(s, k, w, acc) ==
    IF k > Len(s)
    THEN IF w = <<>> THEN acc ELSE Append(acc, w)
    ELSE IF IsSpace(s[k])
         THEN SplitFrom(s, k + 1, <<>>, IF w = <<>> THEN acc ELSE Append(acc, w))
         ELSE SplitFrom(s, k + 1, Append(w, s[k]), acc)

\* s.split()
Split(s) ==
    SplitFrom(s, 1, <<>>, <<>>)

RECURSIVE JoinFrom(_, _, _)
JoinFrom(ws, sep, k) ==
    IF k > Len(ws) THEN <<>>
    ELSE IF k = Len(ws) THEN ws[k]
    ELSE ws[k] \o sep \o JoinFrom(ws, sep, k + 1)

\* sep.join(ws)
Join(ws, sep) ==
    JoinFrom(ws, sep, 1)

\* Path(filename).suffix: the last dot-suffix of the final path component
PathSuffix(filename) ==
    LET slashes == {k \in 1..Len(filename) : filename[k] = "/"}
        base    == IF slashes = {} THEN 0
                   ELSE CHOOSE k \in slashes : \A m \in slashes : m <= k
        name    == SubSeq(filename, base + 1, Len(filename))
        dots    == {k \in 1..Len(name) : name[k] = "."}
        dot     == IF dots = {} THEN 0
                   ELSE CHOOSE k \in dots : \A m \in dots : m <= k
    IN  IF dot > 1 /\ dot < Len(name)
        THEN SubSeq(name, dot, Len(name))
        ELSE <<>>

\* "PDF text extraction requires PyPDF2 library" (main.py:188)
PdfNeedsLibrary ==
    <<"P", "D", "F", " ", "t", "e", "x", "t", " ", "e", "x", "t", "r", "a",
      "c", "t", "i", "o", "n", " ", "r", "e", "q", "u", "i", "r", "e", "s",
      " ", "P", "y", "P", "D", "F", "2", " ", "l", "i", "b", "r", "a", "r",
      "y">>

\* "Error extracting PDF text: " (main.py:190)
PdfErrorPrefix ==
    <<"E", "r", "r", "o", "r", " ", "e", "x", "t", "r", "a", "c", "t", "i",
      "n", "g", " ", "P", "D", "F", " ", "t", "e", "x", "t", ":", " ">>

\* "DOCX text extraction requires python-docx library" (main.py:205)
DocxNeedsLibrary ==
    <<"D", "O", "C", "X", " ", "t", "e", "x", "t", " ", "e", "x", "t", "r",
      "a", "c", "t", "i", "o", "n", " ", "r", "e", "q", "u", "i", "r", "e",
      "s", " ", "p", "y", "t", "h", "o", "n", "-", "d", "o", "c", "x", " ",
      "l", "i", "b", "r", "a", "r", "y">>

\* "Error extracting DOCX text: " (main.py:207)
DocxErrorPrefix ==
    <<"E", "r", "r", "o", "r", " ", "e", "x", "t", "r", "a", "c", "t", "i",
      "n", "g", " ", "D", "O", "C", "X", " ", "t", "e", "x", "t", ":", " ">>

\* "Unsupported document type: " (main.py:80)
UnsupportedPrefix ==
    <<"U", "n", "s", "u", "p", "p", "o", "r", "t", "e", "d", " ", "d", "o",
      "c", "u", "m", "e", "n", "t", " ", "t", "y", "p", "e", ":", " ">>

\* "Video transcription requires Whisper or similar speech-to-text service" (main.py:222)
VideoWhisperNote ==
    <<"V", "i", "d", "e", "o", " ", "t", "r", "a", "n", "s", "c", "r", "i",
      "p", "t", "i", "o", "n", " ", "r", "e", "q", "u", "i", "r", "e", "s",
      " ", "W", "h", "i", "s", "p", "e", "r", " ", "o", "r", " ", "s", "i",
      "m", "i", "l", "a", "r", " ", "s", "p", "e", "e", "c", "h", "-", "t",
      "o", "-", "t", "e", "x", "t", " ", "s", "e", "r", "v", "i", "c", "e">>

\* "Video processing requires moviepy library" (main.py:234)
VideoNeedsLibrary ==
    <<"V", "i", "d", "e", "o", " ", "p", "r", "o", "c", "e", "s", "s", "i",
      "n", "g", " ", "r", "e", "q", "u", "i", "r", "e", "s", " ", "m", "o",
      "v", "i", "e", "p", "y", " ", "l", "i", "b", "r", "a", "r", "y">>

\* "Error processing video: " (main.py:240)
VideoErrorPrefix ==
    <<"E", "r", "r", "o", "r", " ", "p", "r", "o", "c", "e", "s", "s", "i",
      "n", "g", " ", "v", "i", "d", "e", "o", ":", " ">>

\* "Audio transcription requires Whisper or similar speech-to-text service" (main.py:254)
AudioWhisperNote ==
    <<"A", "u", "d", "i", "o", " ", "t", "r", "a", "n", "s", "c", "r", "i",
      "p", "t", "i", "o", "n", " ", "r", "e", "q", "u", "i", "r", "e", "s",
      " ", "W", "h", "i", "s", "p", "e", "r", " ", "o", "r", " ", "s", "i",
      "m", "i", "l", "a", "r", " ", "s", "p", "e", "e", "c", "h", "-", "t",
      "o", "-", "t", "e", "x", "t", " ", "s", "e", "r", "v", "i", "c", "e">>

\* "Audio processing requires librosa library" (main.py:264)
AudioNeedsLibrary ==
    <<"A", "u", "d", "i", "o", " ", "p", "r", "o", "c", "e", "s", "s", "i",
      "n", "g", " ", "r", "e", "q", "u", "i", "r", "e", "s", " ", "l", "i",
      "b", "r", "o", "s", "a", " ", "l", "i", "b", "r", "a", "r", "y">>

\* "Error processing audio: " (main.py:270)
AudioErrorPrefix ==
    <<"E", "r", "r", "o", "r", " ", "p", "r", "o", "c", "e", "s", "s", "i",
      "n", "g", " ", "a", "u", "d", "i", "o", ":", " ">>

\* "Transcription not available" (main.py:125)
TranscriptionDefault ==
    <<"T", "r", "a", "n", "s", "c", "r", "i", "p", "t", "i", "o", "n", " ",
      "n", "o", "t", " ", "a", "v", "a", "i", "l", "a", "b", "l", "e">>
----------------------------------------------------------------------------
(* Inputs the actions draw from                                            *)

\* "0xFF" stands for one byte that is not valid UTF-8
BadByte == "0xFF"

\* the byte strings uploaded
Contents ==
    << <<"M", "L", " ", "a", "i">>,
       <<"A", "I", BadByte>> >>

ContentSet ==
    {Contents[k] : k \in 1..Len(Contents)}

\* the filenames uploaded: "", "AI.TXT", "n.pdf", "v.mp4", "s.mp3"
Filenames ==
    { <<>>,
      <<"A", "I", ".", "T", "X", "T">>,
      <<"n", ".", "p", "d", "f">>,
      <<"v", ".", "m", "p", "4">>,
      <<"s", ".", "m", "p", "3">> }

Kinds ==
    {"document", "video", "audio"}

\* what an extractor's library does on one call: it is not installed
\* (ImportError), it raises on the input, or it succeeds
Outcomes ==
    {"missing", "raises", "ok"}

\* str(e) of the exception a library raises
ErrorText ==
    <<"b", "a", "d">>

\* clip.duration / librosa.get_duration of a file a library can read
MediaDuration == 12

\* sr of librosa.load
MediaSampleRate == 22050

\* the characters of the enumerated queries
QueryAlphabet ==
    {"a", "I", " "}

RECURSIVE SeqsUpTo(_, _)
\* all sequences over S of length at most n
SeqsUpTo(S, n) ==
    IF n = 0 THEN {<<>>}
    ELSE LET shorter == SeqsUpTo(S, n - 1)
         IN  shorter \cup {Append(s, c) : s \in shorter, c \in S}

Queries ==
    SeqsUpTo(QueryAlphabet, MaxQueryLen)

\* file_types = None
NoFilter ==
    [none |-> TRUE, types |-> {}]

\* file_types = a list of type names (only membership in it is used)
TypeFilter(types) ==
    [none |-> FALSE, types |-> types]

\* the file_types arguments of search: None, [], and lists of type names
FileTypeFilters ==
    {NoFilter} \cup {TypeFilter(types) : types \in SUBSET Kinds}

----------------------------------------------------------------------------
(* Hashing and the extractors                                              *)

\* hashlib.md5(file_content).hexdigest(): a digest that depends on the bytes
\* alone; distinct uploaded contents have distinct digests
GetFileHash(file_content) ==
    <<"md5", CHOOSE k \in 1..Len(Contents) : Contents[k] = file_content>>

\* file_content.decode('utf-8', errors='ignore'): undecodable bytes vanish
Decode(file_content) ==
    SelectSeq(file_content, LAMBDA b : b # BadByte)

\* _extract_pdf_text: every path returns a string
ExtractPdfText(file_content, outcome) ==
    CASE outcome = "ok"      -> [raised |-> FALSE,
                                 value  |-> Decode(file_content) \o <<"\n">>]
      [] outcome = "missing" -> [raised |-> FALSE, value |-> PdfNeedsLibrary]
      [] outcome = "raises"  -> [raised |-> FALSE,
                                 value  |-> PdfErrorPrefix \o ErrorText]

\* _extract_docx_text: every path returns a string
ExtractDocxText(file_content, outcome) ==
    CASE outcome = "ok"      -> [raised |-> FALSE,
                                 value  |-> Decode(file_content) \o <<"\n">>]
      [] outcome = "missing" -> [raised |-> FALSE, value |-> DocxNeedsLibrary]
      [] outcome = "raises"  -> [raised |-> FALSE,
                                 value  |-> DocxErrorPrefix \o ErrorText]

\* the mutant of ExtractVideoInfo: the library's exception escapes
ExtractVideoInfoUncaught(outcome) ==
    CASE outcome = "ok" ->
           [raised |-> FALSE,
            value  |-> [duration      |-> MediaDuration,
                        transcription |-> VideoWhisperNote,
                        frames_count  |-> Min(MaxFrames, MediaDuration)]]
      [] outcome = "missing" ->
           [raised |-> FALSE,
            value  |-> [duration      |-> 0,
                        transcription |-> VideoNeedsLibrary,
                        frames_count  |-> 0]]
      [] outcome = "raises" ->
           [raised |-> TRUE, value |-> <<>>]

\* _extract_video_info: every path returns a dict
ExtractVideoInfo(outcome) ==
    CASE outcome = "ok" ->
           [raised |-> FALSE,
            value  |-> [duration      |-> MediaDuration,
                        transcription |-> VideoWhisperNote,
                        frames_count  |-> Min(MaxFrames, MediaDuration)]]
      [] outcome = "missing" ->
           [raised |-> FALSE,
            value  |-> [duration      |-> 0,
                        transcription |-> VideoNeedsLibrary,
                        frames_count  |-> 0]]
      [] outcome = "raises" ->
           [raised |-> FALSE,
            value  |-> [duration      |-> 0,
                        transcription |-> VideoErrorPrefix \o ErrorText,
                        frames_count  |-> 0]]

\* _extract_audio_info: every path returns a dict
ExtractAudioInfo(outcome) ==
    CASE outcome = "ok" ->
           [raised |-> FALSE,
            value  |-> [duration      |-> MediaDuration,
                        transcription |-> AudioWhisperNote,
                        sample_rate   |-> MediaSampleRate]]
      [] outcome = "missing" ->
           [raised |-> FALSE,
            value  |-> [duration      |-> 0,
                        transcription |-> AudioNeedsLibrary,
                        sample_rate   |-> 0]]
      [] outcome = "raises" ->
           [raised |-> FALSE,
            value  |-> [duration      |-> 0,
                        transcription |-> AudioErrorPrefix \o ErrorText,
                        sample_rate   |-> 0]]

\* d.get(key, default)
DictGet(d, key, default) ==
    IF key \in DOMAIN d THEN d[key] ELSE default

----------------------------------------------------------------------------
(* TextChunker                                                             *)

RECURSIVE ChunkLoopLosing(_, _, _, _, _, _)
\* a loop that opens the next chunk without the word that overflowed
ChunkLoopLosing(words, k, chunk_size, chunks, current_chunk, current_size) ==
    IF k > Len(words)
    THEN IF current_chunk # <<>>
         THEN Append(chunks, Join(current_chunk, <<" ">>))
         ELSE chunks
    ELSE IF current_size + Len(words[k]) > chunk_size /\ current_chunk # <<>>
         THEN ChunkLoopLosing(words, k + 1, chunk_size,
                              Append(chunks, Join(current_chunk, <<" ">>)),
                              <<>>, 0)
         ELSE ChunkLoopLosing(words, k + 1, chunk_size, chunks,
                              Append(current_chunk, words[k]),
                              current_size + Len(words[k]) + 1)

RECURSIVE ChunkLoop(_, _, _, _, _, _)
\* the for loop of _chunk_text from word k on, then the final flush
ChunkLoop(words, k, chunk_size, chunks, current_chunk, current_size) ==
    IF k > Len(words)
    THEN IF current_chunk # <<>>
         THEN Append(chunks, Join(current_chunk, <<" ">>))
         ELSE chunks
    ELSE IF current_size + Len(words[k]) > chunk_size /\ current_chunk # <<>>
         THEN ChunkLoop(words, k + 1, chunk_size,
                        Append(chunks, Join(current_chunk, <<" ">>)),
                        <<words[k]>>, Len(words[k]))
         ELSE ChunkLoop(words, k + 1, chunk_size, chunks,
                        Append(current_chunk, words[k]),
                        current_size + Len(words[k]) + 1)

\* _chunk_text(text, chunk_size)
ChunkText(text, chunk_size) ==
    ChunkLoop(Split(text), 1, chunk_size, <<>>, <<>>, 0)

----------------------------------------------------------------------------
(* The metadata index: a Python dict, which keeps insertion order, as a    *)
(* sequence of [key, value] items with distinct keys                       *)

EmptyDict ==
    <<>>

DictKeys(d) ==
    {d[k].key : k \in 1..Len(d)}

\* d.get(key): the value stored under key, or None
DictLookup(d, key) ==
    IF key \in DictKeys(d)
    THEN d[CHOOSE k \in 1..Len(d) : d[k].key = key].value
    ELSE "None"

\* the mutant of DictSet: the record is appended, never replaced
DictSetAppend(d, key, value) ==
    Append(d, [key |-> key, value |-> value])

\* d[key] = value: an existing key keeps its place and gets the new value,
\* a new key goes to the end
DictSet(d, key, value) ==
    IF key \in DictKeys(d)
    THEN [k \in 1..Len(d) |->
            IF d[k].key = key THEN [key |-> key, value |-> value] ELSE d[k]]
    ELSE Append(d, [key |-> key, value |-> value])

\* the states of the file metadata.json
NoFile ==
    [state |-> "absent", items |-> <<>>]

\* the file between open(metadata_file, 'w') and the end of json.dump
TruncatedFile ==
    [state |-> "partial", items |-> <<>>]

\* the mutant of JsonDump: json.dump(..., sort_keys=True), the items in
\* the order of their keys
JsonDumpSorted(d) ==
    [state |-> "ok",
     items |-> [k \in 1..Len(d) |->
                  LET it == CHOOSE x \in {d[m] : m \in 1..Len(d)} :
                              Cardinality({m \in 1..Len(d) :
                                  d[m].key[2] <= x.key[2]}) = k
                  IN  <<it.key, it.value>>]]

\* json.dump(self.metadata, f, indent=2): the items in iteration order
JsonDump(d) ==
    [state |-> "ok", items |-> [k \in 1..Len(d) |-> <<d[k].key, d[k].value>>]]

RECURSIVE JsonLoadFrom(_, _, _)
JsonLoadFrom(items, k, d) ==
    IF k > Len(items) THEN d
    ELSE JsonLoadFrom(items, k + 1, DictSet(d, items[k][1], items[k][2]))

\* json.load(f) of a well-formed file: the object's members, in order
JsonLoad(file) ==
    JsonLoadFrom(file.items, 1, EmptyDict)

\* the mutant of LoadMetadata: a malformed file is read as {}
LoadMetadataLenient(file) ==
    CASE file.state = "absent"  -> [raised |-> FALSE, value |-> EmptyDict]
      [] file.state = "partial" -> [raised |-> FALSE, value |-> EmptyDict]
      [] file.state = "ok"      -> [raised |-> FALSE, value |-> JsonLoad(file)]

\* _load_metadata: {} without a file, json.load's exception on a malformed one
LoadMetadata(file) ==
    CASE file.state = "absent"  -> [raised |-> FALSE, value |-> EmptyDict]
      [] file.state = "partial" -> [raised |-> TRUE,  value |-> EmptyDict]
      [] file.state = "ok"      -> [raised |-> FALSE, value |-> JsonLoad(file)]

----------------------------------------------------------------------------
(* Ingestion: the records and the responses                                *)

\* self.doc_dir, self.video_dir, self.audio_dir
KindDir(kind) ==
    CASE kind = "document" -> "documents"
      [] kind = "video"    -> "videos"
      [] kind = "audio"    -> "audio"

\* saved_path = dir / f"{file_hash}{file_ext}"
SavedPath(kind, file_hash, file_ext) ==
    [dir |-> KindDir(kind), stem |-> file_hash, ext |-> file_ext]

\* the mutant of WriteBlob: the blob is not written
WriteBlobSkipped(store, path, file_content) ==
    store

\* with open(saved_path, 'wb') as f: f.write(file_content)
WriteBlob(store, path, file_content) ==
    [p \in DOMAIN store \cup {path} |->
        IF p = path THEN file_content ELSE store[p]]

\* the if/elif chain of process_document that picks the extractor
DocumentText(file_content, file_ext, outcome) ==
    IF file_ext = <<".", "t", "x", "t">>
    THEN [raised |-> FALSE, value |-> Decode(file_content)]
    ELSE IF file_ext = <<".", "p", "d", "f">>
    THEN ExtractPdfText(file_content, outcome)
    ELSE IF file_ext \in {<<".", "d", "o", "c", "x">>, <<".", "d", "o", "c">>}
    THEN ExtractDocxText(file_content, outcome)
    ELSE [raised |-> FALSE, value |-> UnsupportedPrefix \o file_ext]

\* the metadata dict of process_document
DocumentRecord(filename, file_ext, file_hash, text_content) ==
    [filename         |-> filename,
     file_type        |-> "document",
     file_extension   |-> file_ext,
     file_hash        |-> file_hash,
     file_path        |-> SavedPath("document", file_hash, file_ext),
     text_content     |-> Slice(text_content, 0, TextPreviewLen),
     full_text_length |-> Len(text_content),
     chunks           |-> ChunkText(text_content, DefaultChunkSize)]

\* the metadata dict of process_video
VideoRecord(filename, file_ext, file_hash, video_info) ==
    [filename         |-> filename,
     file_type        |-> "video",
     file_extension   |-> file_ext,
     file_hash        |-> file_hash,
     file_path        |-> SavedPath("video", file_hash, file_ext),
     duration         |-> DictGet(video_info, "duration", 0),
     transcription    |-> DictGet(video_info, "transcription",
                                  TranscriptionDefault),
     frames_extracted |-> DictGet(video_info, "frames_count", 0)]

\* the metadata dict of process_audio
AudioRecord(filename, file_ext, file_hash, audio_info) ==
    [filename       |-> filename,
     file_type      |-> "audio",
     file_extension |-> file_ext,
     file_hash      |-> file_hash,
     file_path      |-> SavedPath("audio", file_hash, file_ext),
     duration       |-> DictGet(audio_info, "duration", 0),
     transcription  |-> DictGet(audio_info, "transcription",
                                TranscriptionDefault),
     sample_rate    |-> DictGet(audio_info, "sample_rate", 0)]

\* the extraction of process_<kind> and the record it assembles
BuildRecord(kind, file_content, filename, file_ext, file_hash, outcome) ==
    CASE kind = "document" ->
           LET t == DocumentText(file_content, file_ext, outcome)
           IN  IF t.raised THEN [raised |-> TRUE, value |-> <<>>]
               ELSE [raised |-> FALSE,
                     value  |-> DocumentRecord(filename, file_ext, file_hash,
                                               t.value)]
      [] kind = "video" ->
           LET v == ExtractVideoInfo(outcome)
           IN  IF v.raised THEN [raised |-> TRUE, value |-> <<>>]
               ELSE [raised |-> FALSE,
                     value  |-> VideoRecord(filename, file_ext, file_hash,
                                            v.value)]
      [] kind = "audio" ->
           LET a == ExtractAudioInfo(outcome)
           IN  IF a.raised THEN [raised |-> TRUE, value |-> <<>>]
               ELSE [raised |-> FALSE,
                     value  |-> AudioRecord(filename, file_ext, file_hash,
                                            a.value)]

\* the dict process_<kind> returns
ProcessResponse(rec, full_text) ==
    IF rec.file_type = "document"
    THEN [file_hash    |-> rec.file_hash,
          status       |-> "processed",
          type         |-> "document",
          text_preview |-> Slice(full_text, 0, ResponsePreviewLen),
          chunks_count |-> Len(rec.chunks)]
    ELSE [file_hash             |-> rec.file_hash,
          status                |-> "processed",
          type                  |-> rec.file_type,
          duration              |-> rec.duration,
          transcription_preview |-> Slice(rec.transcription, 0,
                                          ResponsePreviewLen)]

\* the mutant of AllowedExtensions: one list for every kind
AllowedExtensionsAnyKind(kind) ==
    { <<".", "p", "d", "f">>, <<".", "t", "x", "t">>,
      <<".", "d", "o", "c", "x">>, <<".", "d", "o", "c">>,
      <<".", "m", "p", "4">>, <<".", "a", "v", "i">>,
      <<".", "m", "o", "v">>, <<".", "m", "k", "v">>,
      <<".", "m", "p", "3">>, <<".", "w", "a", "v">>,
      <<".", "m", "4", "a">>, <<".", "a", "a", "c">>,
      <<".", "f", "l", "a", "c">> }

\* the allow-lists of upload_document, upload_video, upload_audio
AllowedExtensions(kind) ==
    CASE kind = "document" ->
           { <<".", "p", "d", "f">>, <<".", "t", "x", "t">>,
             <<".", "d", "o", "c", "x">>, <<".", "d", "o", "c">> }
      [] kind = "video" ->
           { <<".", "m", "p", "4">>, <<".", "a", "v", "i">>,
             <<".", "m", "o", "v">>, <<".", "m", "k", "v">> }
      [] kind = "audio" ->
           { <<".", "m", "p", "3">>, <<".", "w", "a", "v">>,
             <<".", "m", "4", "a">>, <<".", "a", "a", "c">>,
             <<".", "f", "l", "a", "c">> }

\* the detail of the HTTPException an upload handler raises for a bad type
UnsupportedDetail(kind) ==
    CASE kind = "document" -> "Unsupported document type"
      [] kind = "video"    -> "Unsupported video type"
      [] kind = "audio"    -> "Unsupported audio type"

\* the checks of upload_<kind> before it reads the file
Validate(kind, filename) ==
    IF filename = <<>>
    THEN [status |-> 400, detail |-> "No file provided"]
    ELSE IF Lower(PathSuffix(filename)) \notin AllowedExtensions(kind)
    THEN [status |-> 400, detail |-> UnsupportedDetail(kind)]
    ELSE [status |-> 200, detail |-> "ok"]

----------------------------------------------------------------------------
(* SearchEngine                                                            *)

\* _get_snippet(text, query, context_size)
GetSnippet(text, query, context_size) ==
    LET lower_text  == Lower(text)
        lower_query == Lower(query)
        index       == Find(lower_text, lower_query)
        start       == Max(0, index - context_size \div 2)
        end         == Min(Len(text), index + Len(query) + context_size \div 2)
        dots        == <<".", ".", ".">>
    IN  IF index = -1
        THEN Slice(text, 0, context_size) \o dots
        ELSE (IF start > 0 THEN dots ELSE <<>>)
             \o Slice(text, start, end)
             \o (IF end < Len(text) THEN dots ELSE <<>>)

\* the mutant of ContentToSearch: the filename is searched, not the text
ContentToSearchFilename(rec) ==
    rec.filename

\* the text search matches against: text_content of a document, else the
\* transcription
ContentToSearch(rec) ==
    IF rec.file_type = "document"
    THEN DictGet(rec, "text_content", <<>>)
    ELSE DictGet(rec, "transcription", <<>>)

\* the mutant of SkippedByFilter: the filter is not applied
SkippedByFilterNever(rec, file_types) ==
    FALSE

\* the mutant of SkippedByFilter: `file_types is not None and ...`, an empty
\* list excludes every record
SkippedByFilterEmptyList(rec, file_types) ==
    /\ ~file_types.none
    /\ rec.file_type \notin file_types.types

\* `if file_types and metadata['file_type'] not in file_types: continue`
\* (None and the empty list are both falsy)
SkippedByFilter(rec, file_types) ==
    /\ ~file_types.none
    /\ file_types.types # {}
    /\ rec.file_type \notin file_types.types

\* the result search appends for one matching item
SearchResult(item, query) ==
    [file_hash         |-> item.key,
     filename          |-> item.value.filename,
     file_type         |-> item.value.file_type,
     relevance_snippet |-> GetSnippet(ContentToSearch(item.value), query,
                                      DefaultContextSize),
     metadata          |-> item.value]

\* the mutant of Matches: the text is not lower-cased before the test
MatchesCaseSensitive(rec, query) ==
    StrIn(Lower(query), ContentToSearch(rec))

\* the mutant of Matches: an empty query matches nothing
MatchesNonEmpty(rec, query) ==
    query # <<>> /\ StrIn(Lower(query), Lower(ContentToSearch(rec)))

\* `query.lower() in content_to_search.lower()`
Matches(rec, query) ==
    StrIn(Lower(query), Lower(ContentToSearch(rec)))

RECURSIVE SearchFrom(_, _, _, _, _)
\* the loop of search over the items from position k on
SearchFrom(d, k, query, file_types, results) ==
    IF k > Len(d) THEN results
    ELSE IF SkippedByFilter(d[k].value, file_types)
         THEN SearchFrom(d, k + 1, query, file_types, results)
         ELSE IF Matches(d[k].value, query)
              THEN SearchFrom(d, k + 1, query, file_types,
                              Append(results, SearchResult(d[k], query)))
              ELSE SearchFrom(d, k + 1, query, file_types, results)

\* search(query, file_types)
Search(d, query, file_types) ==
    SearchFrom(d, 1, query, file_types, <<>>)

\* get_file_info(file_hash)
GetFileInfo(d, file_hash) ==
    DictLookup(d, file_hash)

\* list_files()
ListFiles(d) ==
    [k \in 1..Len(d) |->
        [file_hash      |-> d[k].key,
         filename       |-> d[k].value.filename,
         file_type      |-> d[k].value.file_type,
         file_extension |-> d[k].value.file_extension]]

----------------------------------------------------------------------------
(* The state machine                                                       *)

\* a call and what it returned: the request, the HTTP-style status, the
\* returned body, and len(list_files()) before and after the call
Call(op, i, status, req, body, before, count) ==
    [op |-> op, inst |-> i, status |-> status, req |-> req, body |-> body,
     before |-> before, count |-> count]

NoCall ==
    Call("none", 0, 0, <<>>, <<>>, 0, 0)

\* a call that has not returned
Pending(op, i) ==
    Call(op, i, 0, <<>>, <<>>, 0, 0)

NoLocals ==
    <<>>

\* an empty storage directory and no process started
Init ==
    /\ blobs = <<>>
    /\ snapshot = NoFile
    /\ metadata = [i \in Inst |-> EmptyDict]
    /\ pc = [i \in Inst |-> "down"]
    /\ cur = [i \in Inst |-> NoLocals]
    /\ nops = 0
    /\ ingested = {}
    /\ last = NoCall

\* MultimodalRAG.__init__ in a starting process: self.metadata is loaded
\* from the snapshot, or the constructor raises and the process does not
\* come up
Construct(i) ==
    /\ pc[i] = "down"
    /\ LET loaded == LoadMetadata(snapshot)
       IN  IF loaded.raised
           THEN /\ last' = Call("construct", i, 500, <<>>, <<>>, 0, 0)
                /\ UNCHANGED <<metadata, pc>>
           ELSE /\ metadata' = [metadata EXCEPT ![i] = loaded.value]
                /\ pc' = [pc EXCEPT ![i] = "idle"]
                /\ last' = Call("construct", i, 200, <<>>, <<>>, 0,
                                Len(ListFiles(loaded.value)))
    /\ UNCHANGED <<blobs, snapshot, cur, nops, ingested>>

\* upload_<kind> up to the blob: the validation, then the first lines of
\* process_<kind> (hash, extension, blob written)
Upload(i, kind, filename, file_content) ==
    /\ pc[i] = "idle"
    /\ IF Validate(kind, filename).status # 200
       THEN /\ LET rejection == Validate(kind, filename)
                   count     == Len(ListFiles(metadata[i]))
               IN  last' = Call("upload", i, rejection.status, <<>>,
                                rejection.detail, count, count)
            /\ UNCHANGED <<blobs, pc, cur, nops>>
       ELSE /\ nops < MaxOps
            /\ LET file_hash == GetFileHash(file_content)
                   file_ext  == Lower(PathSuffix(filename))
               IN  /\ blobs' = WriteBlob(blobs,
                                         SavedPath(kind, file_hash, file_ext),
                                         file_content)
                   /\ cur' = [cur EXCEPT ![i] =
                                [kind      |-> kind,
                                 filename  |-> filename,
                                 content   |-> file_content,
                                 file_hash |-> file_hash,
                                 file_ext  |-> file_ext,
                                 outcome   |-> "none",
                                 before    |-> Len(ListFiles(metadata[i]))]]
            /\ pc' = [pc EXCEPT ![i] = "extract"]
            /\ nops' = nops + 1
            /\ last' = Pending("upload", i)
    /\ UNCHANGED <<snapshot, metadata, ingested>>

\* process_<kind> from the extraction to `self.metadata[file_hash] =
\* metadata`; an exception that escapes the extractor ends the request
\* with a server error
Index(i, outcome) ==
    /\ pc[i] = "extract"
    /\ LET c   == cur[i]
           rec == BuildRecord(c.kind, c.content, c.filename, c.file_ext,
                              c.file_hash, outcome)
       IN  IF rec.raised
           THEN /\ pc' = [pc EXCEPT ![i] = "idle"]
                /\ cur' = [cur EXCEPT ![i] = NoLocals]
                /\ last' = Call("upload", i, 500, <<>>, <<>>, c.before,
                                Len(ListFiles(metadata[i])))
                /\ UNCHANGED metadata
           ELSE /\ metadata' = [metadata EXCEPT ![i] =
                                  DictSet(metadata[i], c.file_hash, rec.value)]
                /\ pc' = [pc EXCEPT ![i] = "save"]
                /\ cur' = [cur EXCEPT ![i].outcome = outcome]
                /\ UNCHANGED last
    /\ UNCHANGED <<blobs, snapshot, nops, ingested>>

\* _save_metadata, `open(self.metadata_file, 'w')`: the file is truncated
SaveOpen(i) ==
    /\ pc[i] = "save"
    /\ snapshot' = TruncatedFile
    /\ pc' = [pc EXCEPT ![i] = "write"]
    /\ UNCHANGED <<blobs, metadata, cur, nops, ingested, last>>

\* _save_metadata, json.dump and the close of the file, then the return of
\* process_<kind> and of the handler
SaveWrite(i) ==
    /\ pc[i] = "write"
    /\ snapshot' = JsonDump(metadata[i])
    /\ pc' = [pc EXCEPT ![i] = "idle"]
    /\ cur' = [cur EXCEPT ![i] = NoLocals]
    /\ LET c    == cur[i]
           rec  == DictLookup(metadata[i], c.file_hash)
           full == IF c.kind = "document"
                   THEN DocumentText(c.content, c.file_ext, c.outcome).value
                   ELSE <<>>
       IN  /\ last' = Call("upload", i, 200,
                           [kind |-> c.kind, filename |-> c.filename,
                            content |-> c.content],
                           ProcessResponse(rec, full), c.before,
                           Len(ListFiles(metadata[i])))
           /\ ingested' = ingested \cup {<<c.content, c.kind>>}
    /\ UNCHANGED <<blobs, metadata, nops>>

\* the process ends, at any point: its memory is gone, the files stay
Exit(i) ==
    /\ pc[i] # "down"
    /\ pc' = [pc EXCEPT ![i] = "down"]
    /\ metadata' = [metadata EXCEPT ![i] = EmptyDict]
    /\ cur' = [cur EXCEPT ![i] = NoLocals]
    /\ last' = Pending("exit", i)
    /\ UNCHANGED <<blobs, snapshot, nops, ingested>>

\* rag.search(query, file_types)
SearchCall(i, query, file_types) ==
    /\ pc[i] = "idle"
    /\ last' = Call("search", i, 200,
                    [query |-> query, file_types |-> file_types],
                    Search(metadata[i], query, file_types),
                    Len(ListFiles(metadata[i])), Len(ListFiles(metadata[i])))
    /\ UNCHANGED <<blobs, snapshot, metadata, pc, cur, nops, ingested>>

\* rag.list_files()
ListCall(i) ==
    /\ pc[i] = "idle"
    /\ last' = Call("list", i, 200, <<>>, ListFiles(metadata[i]),
                    Len(ListFiles(metadata[i])), Len(ListFiles(metadata[i])))
    /\ UNCHANGED <<blobs, snapshot, metadata, pc, cur, nops, ingested>>

\* the spelling of a kind name in a request
KindSpelling(kind) ==
    CASE kind = "document" -> <<"d", "o", "c", "u", "m", "e", "n", "t">>
      [] kind = "video"    -> <<"v", "i", "d", "e", "o">>
      [] kind = "audio"    -> <<"a", "u", "d", "i", "o">>

RECURSIVE SplitOn(_, _, _, _)
\* s.split(sep) from position k on, sep one character; part is the part
\* being read (empty parts are kept)
SplitOn(s, sep, k, part) ==
    IF k > Len(s) THEN <<part>>
    ELSE IF s[k] = sep
         THEN <<part>> \o SplitOn(s, sep, k + 1, <<>>)
         ELSE SplitOn(s, sep, k + 1, Append(part, s[k]))

RECURSIVE Strip(_)
\* s.strip()
Strip(s) ==
    IF s = <<>> THEN s
    ELSE IF IsSpace(s[1]) THEN Strip(Tail(s))
    ELSE IF IsSpace(s[Len(s)]) THEN Strip(SubSeq(s, 1, Len(s) - 1))
    ELSE s

\* a name of the list as search compares it with a record's file_type: the
\* kind it spells, or one value for every name that spells no kind
TypeName(s) ==
    IF \E kind \in Kinds : KindSpelling(kind) = s
    THEN CHOOSE kind \in Kinds : KindSpelling(kind) = s
    ELSE "other"

\* the file_types parameter of GET /search: absent, or a string
AbsentParam ==
    [none |-> TRUE, text |-> <<>>]

TextParam(s) ==
    [none |-> FALSE, text |-> s]

\* types_list of search_files: None unless the parameter is a non-empty
\* string, else the stripped parts between its commas
TypesList(file_types) ==
    IF file_types.none \/ file_types.text = <<>>
    THEN NoFilter
    ELSE LET parts == SplitOn(file_types.text, ",", 1, <<>>)
         IN  TypeFilter({TypeName(Strip(parts[k])) : k \in 1..Len(parts)})

\* the body search_files returns
SearchFilesResponse(query, results) ==
    [query |-> query, results |-> results, count |-> Len(results)]

\* GET /search?query=...&file_types=...
SearchFilesCall(i, query, file_types) ==
    /\ pc[i] = "idle"
    /\ LET count == Len(ListFiles(metadata[i]))
           req   == [query |-> query, file_types |-> file_types]
       IN  IF query = <<>>
           THEN last' = Call("search_files", i, 400, req,
                             SearchFilesResponse(query, <<>>), count, count)
           ELSE last' = Call("search_files", i, 200, req,
                             SearchFilesResponse(query,
                                 Search(metadata[i], query,
                                        TypesList(file_types))),
                             count, count)
    /\ UNCHANGED <<blobs, snapshot, metadata, pc, cur, nops, ingested>>

\* the file_types parameters of the requests of a behaviour
FileTypesParams ==
    { AbsentParam,
      TextParam(<<>>),
      TextParam(<<"a", "u", "d", "i", "o">>),
      TextParam(<<"v", "i", "d", "e", "o", ",", " ", "a", "u", "d", "i", "o">>),
      TextParam(<<",">>) }

\* the queries of the requests of a behaviour
SearchFilesQueries ==
    {<<>>, <<"a">>, <<"a", "I">>}

\* the arguments of the search calls of a behaviour
SearchCalls ==
    { [query |-> <<"a", "I">>, file_types |-> NoFilter],
      [query |-> <<>>,         file_types |-> TypeFilter({"document"})],
      [query |-> <<"a", "I">>, file_types |-> TypeFilter({"video", "audio"})] }

\* `content = await file.read()`: a handler reads the upload's bytes only
\* once the filename has passed its checks
ReadableContents(kind, filename) ==
    IF Validate(kind, filename).status = 200
    THEN ContentSet
    ELSE {<<>>}

\* the starts of the processes in S
StepStart(S) ==
    \E i \in S : Construct(i)

\* the ingestion steps of the processes in S
StepIngest(S) ==
    \/ \E i \in S, kind \in Kinds, filename \in Filenames :
          \E file_content \in ReadableContents(kind, filename) :
             Upload(i, kind, filename, file_content)
    \/ \E i \in S, outcome \in Outcomes : Index(i, outcome)
    \/ \E i \in S : SaveOpen(i)
    \/ \E i \in S : SaveWrite(i)

\* the ends of the processes in S
StepExit(S) ==
    \E i \in S : Exit(i)

\* the read-only calls of the processes in S
StepRead(S) ==
    \/ \E i \in S, call \in SearchCalls :
          SearchCall(i, call.query, call.file_types)
    \/ \E i \in S : ListCall(i)

\* one server process on the storage directory, stopped and restarted at
\* will
Next ==
    \/ StepStart({1})
    \/ StepIngest({1})
    \/ StepExit({1})
    \/ StepRead({1})

Spec ==
    Init /\ [][Next]_vars

\* one server process that is never stopped
NextRun ==
    \/ StepStart({1})
    \/ StepIngest({1})
    \/ StepRead({1})

SpecRun ==
    Init /\ [][NextRun]_vars

\* several processes on one storage directory
NextMulti ==
    \/ StepStart(Inst)
    \/ StepIngest(Inst)
    \/ StepExit(Inst)

SpecMulti ==
    Init /\ [][NextMulti]_vars

----------------------------------------------------------------------------
(* A process started on a storage directory that earlier runs have filled  *)

\* the accepted uploads and what their extractor does
Ingestions ==
    {x \in Kinds \X Filenames \X ContentSet \X Outcomes :
        Validate(x[1], x[2]).status = 200}

\* the records process_<kind> stores for them
StoredRecords ==
    LET built == {BuildRecord(x[1], x[3], x[2], Lower(PathSuffix(x[2])),
                              GetFileHash(x[3]), x[4]) : x \in Ingestions}
    IN  {b.value : b \in {r \in built : ~r.raised}}

\* `self.metadata[file_hash] = metadata`: the items of the index
StoredItems ==
    {[key |-> rec.file_hash, value |-> rec] : rec \in StoredRecords}

\* the indexes ingestions build: items in the order of their first
\* ingestion, one per content digest
Indexes ==
    UNION {{d \in [1..n -> StoredItems] :
               \A a, b \in 1..n : a # b => d[a].key # d[b].key} :
           n \in 0..Cardinality(ContentSet)}

\* the uploaded bytes of digest file_hash
ContentOf(file_hash) ==
    CHOOSE c \in ContentSet : GetFileHash(c) = file_hash

RECURSIVE BlobsFrom(_, _, _)
\* the blobs the ingestions of the items of d from position k on wrote
BlobsFrom(d, k, store) ==
    IF k > Len(d) THEN store
    ELSE BlobsFrom(d, k + 1,
                   WriteBlob(store, d[k].value.file_path, ContentOf(d[k].key)))

\* process 1 has just been constructed on a directory that holds the
\* snapshot of index d and the blobs of its records
InitLoaded ==
    \E d \in Indexes :
        /\ blobs = BlobsFrom(d, 1, <<>>)
        /\ snapshot \in {JsonDump(d)} \cup
                        (IF d = EmptyDict THEN {NoFile} ELSE {})
        /\ metadata = [i \in Inst |->
                         IF i = 1 THEN LoadMetadata(snapshot).value
                         ELSE EmptyDict]
        /\ pc = [i \in Inst |-> IF i = 1 THEN "idle" ELSE "down"]
        /\ cur = [i \in Inst |-> NoLocals]
        /\ nops = Len(d)
        /\ ingested = {<<ContentOf(d[k].key), d[k].value.file_type>> :
                         k \in 1..Len(d)}
        /\ last = Call("construct", 1, 200, <<>>, <<>>, 0, Len(ListFiles(d)))

\* the started process serves read-only calls and search requests
NextLoaded ==
    \/ StepRead({1})
    \/ \E query \in SearchFilesQueries, file_types \in FileTypesParams :
          SearchFilesCall(1, query, file_types)

SpecLoaded ==
    InitLoaded /\ [][NextLoaded]_vars

----------------------------------------------------------------------------
(* _chunk_text called on an instance                                       *)

\* the texts handed to _chunk_text
Texts(n) ==
    SeqsUpTo(QueryAlphabet, n)

\* chunk_size
ChunkSizes ==
    0..MaxChunkSize

\* rag._chunk_text(text, chunk_size) has been called on a fresh instance
InitChunk ==
    \E text \in Texts(MaxChunkTextLen), chunk_size \in ChunkSizes :
        /\ blobs = <<>>
        /\ snapshot = NoFile
        /\ metadata = [i \in Inst |-> EmptyDict]
        /\ pc = [i \in Inst |-> IF i = 1 THEN "chunk" ELSE "down"]
        /\ cur = [i \in Inst |->
                    IF i = 1 THEN [text |-> text, chunk_size |-> chunk_size]
                    ELSE NoLocals]
        /\ nops = 0
        /\ ingested = {}
        /\ last = Pending("chunk", 1)

\* _chunk_text returns its chunks
ChunkReturn(i) ==
    /\ pc[i] = "chunk"
    /\ pc' = [pc EXCEPT ![i] = "idle"]
    /\ last' = Call("chunk", i, 200, cur[i],
                    ChunkText(cur[i].text, cur[i].chunk_size), 0, 0)
    /\ cur' = [cur EXCEPT ![i] = NoLocals]
    /\ UNCHANGED <<blobs, snapshot, metadata, nops, ingested>>

NextChunk ==
    \E i \in {1} : ChunkReturn(i)

SpecChunk ==
    InitChunk /\ [][NextChunk]_vars

----------------------------------------------------------------------------
(* _get_snippet called on an instance                                      *)

\* the characters of the texts handed to _get_snippet
SnippetAlphabet ==
    {"a", "I", DottedI}

\* context_size
ContextSizes ==
    0..MaxContextSize

\* rag._get_snippet(text, query, context_size) has been called on a fresh
\* instance
InitSnippet ==
    \E text \in SeqsUpTo(SnippetAlphabet, MaxSnippetTextLen),
       query \in Queries, context_size \in ContextSizes :
        /\ blobs = <<>>
        /\ snapshot = NoFile
        /\ metadata = [i \in Inst |-> EmptyDict]
        /\ pc = [i \in Inst |-> IF i = 1 THEN "snippet" ELSE "down"]
        /\ cur = [i \in Inst |->
                    IF i = 1
                    THEN [text |-> text, query |-> query,
                          context_size |-> context_size]
                    ELSE NoLocals]
        /\ nops = 0
        /\ ingested = {}
        /\ last = Pending("snippet", 1)

\* _get_snippet returns its snippet
SnippetReturn(i) ==
    /\ pc[i] = "snippet"
    /\ pc' = [pc EXCEPT ![i] = "idle"]
    /\ last' = Call("snippet", i, 200, cur[i],
                    GetSnippet(cur[i].text, cur[i].query, cur[i].context_size),
                    0, 0)
    /\ cur' = [cur EXCEPT ![i] = NoLocals]
    /\ UNCHANGED <<blobs, snapshot, metadata, nops, ingested>>

NextSnippet ==
    \E i \in {1} : SnippetReturn(i)

SpecSnippet ==
    InitSnippet /\ [][NextSnippet]_vars

----------------------------------------------------------------------------
(* Vocabulary of the properties                                            *)

\* the bytes stored for the record of item it
BlobOf(it) ==
    blobs[it.value.file_path]

\* index d holds a record of bytes file_content ingested as kind
HasRecordOf(d, file_content, kind) ==
    \E k \in 1..Len(d) :
        /\ d[k].value.file_type = kind
        /\ d[k].value.file_path \in DOMAIN blobs
        /\ BlobOf(d[k]) = file_content

\* the (content, kind) pairs of the records of index d
RecordPairs(d) ==
    {<<BlobOf(d[k]), d[k].value.file_type>> : k \in 1..Len(d)}

\* the (content, directory) pairs of the stored blobs
BlobPairs(store) ==
    {<<store[p], p.dir>> : p \in DOMAIN store}

\* the sequence of file_hash fields of a sequence of results or projections
HashesOf(rs) ==
    [k \in 1..Len(rs) |-> rs[k].file_hash]

----------------------------------------------------------------------------
(* C1: idempotent upsert.  When the index of a process already holds the   *)
(* record of bytes B ingested as kind K, ingesting B as K again stores the *)
(* record under the hash the first ingestion used, leaves exactly one      *)
(* record under that hash and leaves the number of records list_files      *)
(* reports unchanged; the hash returned is the one of the stored record.   *)
C1_IdempotentUpsert ==
    [][\A i \in Inst :
         /\ \A outcome \in Outcomes :
              (Index(i, outcome)
                 /\ HasRecordOf(metadata[i], cur[i].content, cur[i].kind))
              => /\ Len(ListFiles(metadata'[i])) = Len(ListFiles(metadata[i]))
                 /\ Cardinality({k \in 1..Len(metadata'[i]) :
                       metadata'[i][k].key = cur[i].file_hash}) = 1
                 /\ \A k \in 1..Len(metadata[i]) :
                       (BlobOf(metadata[i][k]) = cur[i].content)
                       => metadata[i][k].key = cur[i].file_hash
         /\ SaveWrite(i)
              => /\ last'.body.file_hash = cur[i].file_hash
                 /\ last'.count = Len(ListFiles(metadata[i]))
      ]_vars

\* C1 witness: the second of two ingestions of the same bytes under the
\* same kind has returned, with one record before it and one after it
C1_Witness ==
    /\ last.op = "upload"
    /\ last.status = 200
    /\ nops = 2
    /\ Cardinality(ingested) = 1
    /\ last.before = 1
    /\ last.count = 1

----------------------------------------------------------------------------
(* C2: storage and index are one-to-one with the distinct (content, kind)  *)
(* pairs ingested.  There is exactly one blob per (content, kind) pair     *)
(* stored, and the step that puts a record into the index leaves the index *)
(* with exactly one record per pair: the pairs it held plus the pair just  *)
(* ingested.                                                               *)
C2_OneToOne ==
    [][/\ Cardinality(DOMAIN blobs') = Cardinality(BlobPairs(blobs'))
       /\ \A i \in Inst, outcome \in Outcomes :
            Index(i, outcome)
            => /\ RecordPairs(metadata'[i])
                    = RecordPairs(metadata[i])
                      \cup {<<cur[i].content, cur[i].kind>>}
               /\ Len(metadata'[i]) = Cardinality(RecordPairs(metadata'[i]))
      ]_vars

----------------------------------------------------------------------------
(* C3: identical bytes under two kinds are indexed independently.  The     *)
(* step that indexes bytes B as kind K2 keeps, unchanged, the record the   *)
(* index holds of the same bytes B under another kind K1.                  *)
C3_KindsIndependent ==
    [][\A i \in Inst, outcome \in Outcomes :
         Index(i, outcome)
         => \A k \in 1..Len(metadata[i]) :
              (/\ BlobOf(metadata[i][k]) = cur[i].content
               /\ metadata[i][k].value.file_type # cur[i].kind)
              => \E m \in 1..Len(metadata'[i]) :
                    metadata'[i][m] = metadata[i][k]
      ]_vars


----------------------------------------------------------------------------
(* C4: the index mutation is atomic across concurrent ingestions.  Once no *)
(* ingestion is in flight and the snapshot is whole, the snapshot holds a  *)
(* record for every ingestion that has returned.                           *)
C4_NoLostUpdate ==
    ((\A i \in Inst : pc[i] \in {"idle", "down"}) /\ snapshot.state = "ok")
    => \A pair \in ingested :
          \E k \in 1..Len(snapshot.items) :
             snapshot.items[k][1] = GetFileHash(pair[1])

----------------------------------------------------------------------------
(* C5: the snapshot is the index.  Whenever a process is between calls,    *)
(* loading the snapshot yields exactly its in-memory index, so a process   *)
(* started then lists and gets what this one does; and that index holds    *)
(* exactly the records of the ingestions that have returned.               *)
C5_SnapshotIsIndex ==
    \A i \in Inst :
        pc[i] = "idle"
        => /\ LoadMetadata(snapshot) = [raised |-> FALSE, value |-> metadata[i]]
           /\ ListFiles(LoadMetadata(snapshot).value) = ListFiles(metadata[i])
           /\ DictKeys(metadata[i]) = {GetFileHash(pair[1]) : pair \in ingested}

\* C5 witness: a restarted process has loaded the two records ingested
\* before it started
C5_Witness ==
    /\ last.op = "construct"
    /\ last.status = 200
    /\ last.count = 2
    /\ Cardinality(ingested) = 2
    /\ HashesOf(ListFiles(metadata[1])) = <<GetFileHash(Contents[2]),
                                            GetFileHash(Contents[1])>>

----------------------------------------------------------------------------
(* Vocabulary of C6                                                        *)

\* the allow-lists as the interface states them
DeclaredExtensions(kind) ==
    CASE kind = "document" ->
           { <<".", "p", "d", "f">>, <<".", "t", "x", "t">>,
             <<".", "d", "o", "c", "x">>, <<".", "d", "o", "c">> }
      [] kind = "video" ->
           { <<".", "m", "p", "4">>, <<".", "a", "v", "i">>,
             <<".", "m", "o", "v">>, <<".", "m", "k", "v">> }
      [] kind = "audio" ->
           { <<".", "m", "p", "3">>, <<".", "w", "a", "v">>,
             <<".", "m", "4", "a">>, <<".", "a", "a", "c">>,
             <<".", "f", "l", "a", "c">> }

BadRequest(kind, filename) ==
    \/ filename = <<>>
    \/ Lower(PathSuffix(filename)) \notin DeclaredExtensions(kind)

(* C6: a request without a filename, or with an extension outside the      *)
(* allow-list of its kind, is answered with an error and changes neither   *)
(* the blobs, nor the index, nor the snapshot.                             *)
(* An upload step is a step of an idle process that records an upload; it *)
(* leaves the process idle, the request answered, or takes it on to the    *)
(* extraction with the request in its locals.                              *)
C6_RejectedBeforeMutation ==
    [][\A i \in Inst :
         (pc[i] = "idle" /\ last'.op = "upload" /\ last'.inst = i)
         => /\ pc'[i] = "extract"
               => ~BadRequest(cur'[i].kind, cur'[i].filename)
            /\ pc'[i] # "extract"
               => /\ last'.status = 400
                  /\ UNCHANGED <<blobs, metadata, snapshot>>
      ]_vars

\* C6 witness: a video upload with a disallowed extension was rejected by
\* a process whose index holds a record
C6_Witness ==
    /\ last.op = "upload"
    /\ last.status = 400
    /\ last.body = "Unsupported video type"
    /\ last.count = 1
    /\ DOMAIN blobs # {}

----------------------------------------------------------------------------
(* Vocabulary of C7                                                        *)

IsPrefix(p, t) ==
    Len(p) <= Len(t) /\ SubSeq(t, 1, Len(p)) = p

IsPlaceholder(t) ==
    \/ t \in {PdfNeedsLibrary, DocxNeedsLibrary, VideoNeedsLibrary,
              AudioNeedsLibrary}
    \/ \E p \in {PdfErrorPrefix, DocxErrorPrefix, VideoErrorPrefix,
                 AudioErrorPrefix} : IsPrefix(p, t)

(* C7: extractor failure never aborts ingestion.  Whatever the extractor   *)
(* does (succeeds, is not installed, raises), the accepted upload goes on  *)
(* to store its record under its hash, the blob is there, a failed         *)
(* extraction leaves a placeholder as the text, and the call returns       *)
(* status 'processed'.                                                     *)
C7_ExtractionDegrades ==
    [][\A i \in Inst :
         /\ \A outcome \in Outcomes :
              Index(i, outcome)
              => /\ pc'[i] = "save"
                 /\ cur[i].file_hash \in DictKeys(metadata'[i])
                 /\ LET rec == DictLookup(metadata'[i], cur[i].file_hash)
                    IN  /\ rec.file_path \in DOMAIN blobs'
                        /\ blobs'[rec.file_path] = cur[i].content
                        /\ (outcome # "ok"
                              /\ cur[i].file_ext # <<".", "t", "x", "t">>)
                           => IsPlaceholder(ContentToSearch(rec))
         /\ SaveWrite(i)
              => /\ last'.status = 200
                 /\ last'.body.status = "processed"
                 /\ last'.body.file_hash \in DictKeys(metadata'[i])
      ]_vars

\* C7 witness: an audio upload whose extraction raised has returned
\* 'processed' and its record carries the error placeholder
C7_Witness ==
    /\ last.op = "upload"
    /\ last.status = 200
    /\ last.body.status = "processed"
    /\ last.body.type = "audio"
    /\ last.body.transcription_preview = AudioErrorPrefix \o ErrorText
    /\ last.body.file_hash \in DictKeys(metadata[last.inst])

----------------------------------------------------------------------------
(* Vocabulary of the search properties.  A handler runs to its end before  *)
(* the next one starts, so a search reads the index of an idle process,    *)
(* and that index is the one the process had when it started or when its   *)
(* last ingestion returned.                                                *)

\* process i has just started, or has just returned from an ingestion
NewIndex(i) ==
    /\ pc[i] = "idle"
    /\ last.inst = i
    /\ last.op \in {"construct", "upload"}
    /\ last.status = 200

\* the index an idle process holds is the one of its last NewIndex state:
\* a step into an idle state that is not such a state, and the step that
\* accepts an upload, leave the index as it was
IndexReadIsNewIndex ==
    [][\A i \in Inst :
         /\ (pc'[i] = "idle" /\ ~NewIndex(i)')
            => (pc[i] \in {"idle", "extract"} /\ metadata'[i] = metadata[i])
         /\ pc'[i] = "extract"
            => (pc[i] = "idle" /\ metadata'[i] = metadata[i])
      ]_vars

\* the searchable text of a record: the text preview of a document, the
\* transcription of a video or an audio file
SearchableText(rec) ==
    IF rec.file_type = "document" THEN rec.text_content ELSE rec.transcription

\* s occurs in text, letter case ignored
ContainsCI(text, s) ==
    LET folded_text == Lower(text)
        folded_s    == Lower(s)
    IN  \E o \in 0..(Len(text) - Len(s)) :
            \A j \in 1..Len(s) : folded_text[o + j] = folded_s[j]

\* results holds a result for the record stored under key
HasResult(results, key) ==
    \E r \in 1..Len(results) : results[r].file_hash = key

\* the record's extraction degraded to a placeholder
Degraded(rec) ==
    IsPlaceholder(SearchableText(rec))

\* every index a process holds after ingestions, stops and restarts is one
\* of the indexes SpecLoaded starts from
IndexesCoverSpec ==
    \A i \in Inst : metadata[i] \in Indexes

----------------------------------------------------------------------------
(* C8, as stated: a file whose extraction degraded to a placeholder is     *)
(* found by a search for its filename.                                     *)
C8_SearchableByFilename ==
    \A i \in Inst : \A k \in 1..Len(metadata[i]) :
        (NewIndex(i) /\ Degraded(metadata[i][k].value))
        => HasResult(Search(metadata[i], metadata[i][k].value.filename,
                            NoFilter),
                     metadata[i][k].key)

(* C8, amended: a file whose extraction degraded to a placeholder is found *)
(* by the text of its placeholder, not by its filename.  A search for the  *)
(* placeholder, or for a word of it, returns a result for the file; a      *)
(* search for the filename returns one exactly when the filename occurs    *)
(* in the placeholder.                                                     *)
C8_SearchableByPlaceholder ==
    \A i \in Inst : \A k \in 1..Len(metadata[i]) :
        LET rec   == metadata[i][k].value
            text  == SearchableText(rec)
            words == Split(text)
        IN  (NewIndex(i) /\ Degraded(rec))
            => /\ \A q \in {text} \cup {words[w] : w \in 1..Len(words)} :
                    HasResult(Search(metadata[i], q, NoFilter),
                              metadata[i][k].key)
               /\ HasResult(Search(metadata[i], rec.filename, NoFilter),
                            metadata[i][k].key)
                  <=> ContainsCI(text, rec.filename)

\* C8 witness: the index holds a video whose library is missing; a search
\* for "requires" finds it and a search for its filename finds nothing
C8_Witness ==
    /\ NewIndex(1)
    /\ Len(metadata[1]) = 1
    /\ metadata[1][1].value.file_type = "video"
    /\ SearchableText(metadata[1][1].value) = VideoNeedsLibrary
    /\ HasResult(Search(metadata[1],
                        <<"r", "e", "q", "u", "i", "r", "e", "s">>, NoFilter),
                 metadata[1][1].key)
    /\ Search(metadata[1], metadata[1][1].value.filename, NoFilter) = <<>>

----------------------------------------------------------------------------
(* C9: search containment.  In every state, for every record and every     *)
(* string S, if the record's searchable text contains S, letter case       *)
(* ignored, then search(S) without a kind filter has a result for the      *)
(* record.                                                                 *)
C9_SearchContainment ==
    \A i \in Inst :
        NewIndex(i)
        => \A q \in Queries :
             LET results == Search(metadata[i], q, NoFilter)
             IN  \A k \in 1..Len(metadata[i]) :
                     ContainsCI(SearchableText(metadata[i][k].value), q)
                     => HasResult(results, metadata[i][k].key)

\* C9 witness: the ingestion of the document whose text is "AI" has
\* returned, the index holds another record too, and search("aI") finds
\* the document
C9_Witness ==
    /\ NewIndex(1)
    /\ last.op = "upload"
    /\ Len(metadata[1]) = 2
    /\ \E k \in 1..Len(metadata[1]) :
          /\ metadata[1][k].value.file_type = "document"
          /\ SearchableText(metadata[1][k].value) = <<"A", "I">>
          /\ HasResult(Search(metadata[1], <<"a", "I">>, NoFilter),
                       metadata[1][k].key)

----------------------------------------------------------------------------
(* Vocabulary of C10                                                       *)

\* the record passes the kind filter (no filter and the empty list pass all)
PassesFilter(rec, file_types) ==
    \/ file_types.none
    \/ file_types.types = {}
    \/ rec.file_type \in file_types.types

(* C10: the empty-query law.  In every state and for every kind filter,    *)
(* search("") returns the records that pass the filter, one result per     *)
(* record, in the order of the index.                                      *)
C10_EmptyQuery ==
    \A i \in Inst : \A file_types \in FileTypeFilters :
        NewIndex(i) =>
        LET results == Search(metadata[i], <<>>, file_types)
            passing == SelectSeq(metadata[i],
                                 LAMBDA it : PassesFilter(it.value, file_types))
        IN  /\ Len(results) = Len(passing)
            /\ \A k \in 1..Len(results) :
                  /\ results[k].file_hash = passing[k].key
                  /\ results[k].metadata = passing[k].value

\* C10 witness: the index holds a document and a record of another kind;
\* search("", ["document"]) returns the document alone and search("")
\* returns both
C10_Witness ==
    /\ NewIndex(1)
    /\ Len(metadata[1]) = 2
    /\ Len(Search(metadata[1], <<>>, NoFilter)) = 2
    /\ Len(Search(metadata[1], <<>>, TypeFilter({"document"}))) = 1
    /\ Search(metadata[1], <<>>, TypeFilter({"document"}))[1].file_type
          = "document"

----------------------------------------------------------------------------
\* the kind filters that name at least one kind
KindFilters ==
    {TypeFilter(types) : types \in (SUBSET Kinds) \ {{}}}

(* C11: the kind filter.  For every query and every filter F that names at *)
(* least one kind, every result of search(query, F) has a kind of F, every *)
(* record of a kind of F whose searchable text contains the query has a    *)
(* result, and a record of a kind outside F has none, whatever its text.   *)
C11_KindFilter ==
    \A i \in Inst :
        NewIndex(i)
        => \A q \in Queries, file_types \in KindFilters :
             LET results == Search(metadata[i], q, file_types)
             IN  /\ \A r \in 1..Len(results) :
                       /\ results[r].file_type \in file_types.types
                       /\ results[r].metadata.file_type \in file_types.types
                 /\ \A k \in 1..Len(metadata[i]) :
                       LET rec == metadata[i][k].value
                       IN  /\ (/\ rec.file_type \in file_types.types
                               /\ ContainsCI(SearchableText(rec), q))
                              => HasResult(results, metadata[i][k].key)
                           /\ rec.file_type \notin file_types.types
                              => ~HasResult(results, metadata[i][k].key)

\* C11 witness: the index holds a document and an audio file whose texts
\* both contain "a"; search("a", ["document"]) returns the document alone
C11_Witness ==
    /\ NewIndex(1)
    /\ Len(metadata[1]) = 2
    /\ {metadata[1][k].value.file_type : k \in 1..2} = {"document", "audio"}
    /\ \A k \in 1..2 : ContainsCI(SearchableText(metadata[1][k].value), <<"a">>)
    /\ Len(Search(metadata[1], <<"a">>, NoFilter)) = 2
    /\ Len(Search(metadata[1], <<"a">>, TypeFilter({"document"}))) = 1
    /\ Search(metadata[1], <<"a">>, TypeFilter({"document"}))[1].file_type
          = "document"


----------------------------------------------------------------------------
(* Vocabulary of C12 and C13 *)

\* _chunk_text has returned in process i
ChunkReturned(i) ==
    /\ last.op = "chunk"
    /\ last.inst = i
    /\ last.status = 200

\* a chunk that consists of a single word longer than n
OversizeAlone(chunk, n) ==
    /\ Len(Split(chunk)) = 1
    /\ Split(chunk)[1] = chunk
    /\ Len(chunk) > n

(* C12: the chunk bound. Every chunk returned by chunk(text, N) has length
   at most N, except a chunk that consists of a single word longer than N;
   a word of text longer than N is never split and never shares a chunk
   with another word: it is a chunk by itself. *)
C12_ChunkBound ==
    \A i \in Inst :
        ChunkReturned(i)
        => LET text   == last.req.text
               n      == last.req.chunk_size
               chunks == last.body
               words  == Split(text)
           IN  /\ \A c \in 1..Len(chunks) :
                     \/ Len(chunks[c]) <= n
                     \/ OversizeAlone(chunks[c], n)
               /\ \A k \in 1..Len(words) :
                     Len(words[k]) > n
                     => \E c \in 1..Len(chunks) : chunks[c] = words[k]
               /\ \A c \in 1..Len(chunks) :
                     (\E k \in 1..Len(Split(chunks[c])) :
                         Len(Split(chunks[c])[k]) > n)
                     => Len(Split(chunks[c])) = 1


RECURSIVE WordsOf(_, _)
\* the words of the chunks from position c on, in order
WordsOf(chunks, c) ==
    IF c > Len(chunks) THEN <<>>
    ELSE Split(chunks[c]) \o WordsOf(chunks, c + 1)

(* C13: chunk reconstruction. Joining the chunks of chunk(text, N) in order
   with single spaces yields exactly the words of text in their original
   order joined by single spaces: no word is lost, duplicated, reordered or
   split. Empty or whitespace-only text yields the empty sequence, and no
   returned chunk is empty. *)
C13_ChunkReconstruction ==
    \A i \in Inst :
        ChunkReturned(i)
        => LET text   == last.req.text
               chunks == last.body
               words  == Split(text)
           IN  /\ Join(chunks, <<" ">>) = Join(words, <<" ">>)
               /\ WordsOf(chunks, 1) = words
               /\ (\A k \in 1..Len(text) : IsSpace(text[k])) => chunks = <<>>
               /\ \A c \in 1..Len(chunks) : chunks[c] # <<>>

\* a text of several words, with doubled and leading spaces, has been cut
\* into more than one chunk
C13_Witness ==
    /\ ChunkReturned(1)
    /\ last.req.text = <<" ", "a", " ", " ", "I", "a">>
    /\ last.req.chunk_size = 2
    /\ last.body = <<<<"a">>, <<"I", "a">>>>


----------------------------------------------------------------------------
(* Vocabulary of C14 *)

\* _get_snippet has returned in process i
SnippetReturned(i) ==
    /\ last.op = "snippet"
    /\ last.inst = i
    /\ last.status = 200

\* query occurs in text at the 0-based position k, case ignored
OccursAt(text, query, k) ==
    \E m \in 0..(Len(text) - k) :
        Lower(SubSeq(text, k + 1, k + m)) = Lower(query)

\* the positions of text at which query occurs, case ignored
Occurrences(text, query) ==
    {k \in 0..Len(text) : OccursAt(text, query, k)}

\* the index of the first case-insensitive occurrence of query in text
FirstOccurrence(text, query) ==
    CHOOSE k \in Occurrences(text, query) :
        \A j \in Occurrences(text, query) : k <= j

\* the statement of C14 for one call of snippet
SnippetWindow(text, query, c, snippet) ==
    LET i     == FirstOccurrence(text, query)
        start == Max(0, i - c \div 2)
        end   == Min(Len(text), i + Len(query) + c \div 2)
        dots  == <<".", ".", ".">>
    IN  /\ snippet = (IF start > 0 THEN dots ELSE <<>>)
                     \o SubSeq(text, start + 1, end)
                     \o (IF end < Len(text) THEN dots ELSE <<>>)
        /\ start <= i
        /\ OccursAt(SubSeq(text, start + 1, end), query, i - start)

(* C14: the snippet window. When the query occurs in the text,
   snippet(text, query, c) is the substring of text from max(0, i - c/2) to
   min(len(text), i + len(query) + c/2), where i is the index of the first
   case-insensitive occurrence, so it contains that occurrence; it is
   prefixed with "..." exactly when the window does not start at the
   beginning of text and suffixed with "..." exactly when it does not reach
   the end of text. *)
C14_SnippetWindow ==
    \A i \in Inst :
        (SnippetReturned(i) /\ Occurrences(last.req.text, last.req.query) # {})
        => SnippetWindow(last.req.text, last.req.query,
                         last.req.context_size, last.body)


----------------------------------------------------------------------------
(* Vocabulary of C15 *)

\* process i is being constructed in this step
Constructing(i) ==
    /\ pc[i] = "down"
    /\ last'.op = "construct"
    /\ last'.inst = i

(* C15: the startup load. Constructing the index when no snapshot file
   exists yields an empty mapping without error; constructing it when the
   snapshot is malformed (truncated by a crash in the middle of the in-place
   rewrite) fails startup with an error: the process does not come up, holds
   no index, empty or partial, that a later ingestion could persist, and
   leaves the file and the blobs as they are; the file is only ever written
   by a process in the save of an ingestion. *)
C15_StartupLoad ==
    [][/\ \A i \in Inst :
            Constructing(i)
            => /\ snapshot.state = "absent"
                  => /\ last'.status = 200
                     /\ pc'[i] = "idle"
                     /\ metadata'[i] = EmptyDict
               /\ snapshot.state = "partial"
                  => /\ last'.status = 500
                     /\ pc'[i] = "down"
                     /\ UNCHANGED <<blobs, metadata, snapshot>>
       /\ snapshot' # snapshot
          => \E i \in Inst : pc[i] \in {"save", "write"}
      ]_vars

\* a start has failed on the snapshot that a crash in the middle of its
\* rewrite left behind, after an earlier ingestion had been saved
C15_Witness ==
    /\ last.op = "construct"
    /\ last.status = 500
    /\ pc[last.inst] = "down"
    /\ snapshot = TruncatedFile
    /\ ingested # {}
    /\ blobs # <<>>


----------------------------------------------------------------------------
(* Vocabulary of C16 *)

\* the item is stored under its own file_hash, and its file_path names an
\* existing blob of the directory of its kind whose bytes hash to the key
BackedByBlob(key, rec) ==
    /\ rec.file_hash = key
    /\ rec.file_path \in DOMAIN blobs
    /\ rec.file_path.dir = KindDir(rec.file_type)
    /\ rec.file_path.stem = key
    /\ GetFileHash(blobs[rec.file_path]) = key

(* C16: blob before index. In every state reachable by any sequence of
   ingestions, every record in the index is stored under the key equal to
   its own file_hash field, and its file_path names a blob that exists in
   the subdirectory of the record's kind and whose bytes hash to that key;
   the blob is written before the record becomes visible in the index (it
   exists while the ingestion has not yet stored the record), so no index
   record, in memory or in the snapshot, ever refers to a missing blob. *)
C16_BlobBeforeIndex ==
    /\ \A i \in Inst :
          /\ \A k \in 1..Len(metadata[i]) :
                BackedByBlob(metadata[i][k].key, metadata[i][k].value)
          /\ pc[i] = "extract"
             => LET path == SavedPath(cur[i].kind, cur[i].file_hash,
                                      cur[i].file_ext)
                IN  /\ path \in DOMAIN blobs
                    /\ blobs[path] = cur[i].content
    /\ snapshot.state = "ok"
       => \A k \in 1..Len(snapshot.items) :
             BackedByBlob(snapshot.items[k][1], snapshot.items[k][2])

\* an ingestion has just saved an index of two records of different kinds
C16_Witness ==
    /\ pc[1] = "idle"
    /\ Len(metadata[1]) = 2
    /\ metadata[1][1].value.file_type # metadata[1][2].value.file_type
    /\ snapshot = JsonDump(metadata[1])
    /\ last.op = "upload"
    /\ last.status = 200


----------------------------------------------------------------------------
(* Vocabulary of C17 *)

\* GET /search has answered in process i
SearchFilesReturned(i) ==
    /\ last.op = "search_files"
    /\ last.inst = i
    /\ last.status = 200

\* the kind-filter parameter is absent or empty
AbsentOrEmpty(file_types) ==
    file_types.none \/ file_types.text = <<>>

(* C17: an empty kind filter behaves as no filter. search(query, F) with F
   the empty collection returns the same results as search(query) with the
   filter omitted, in which every kind passes, rather than excluding every
   record; and the query entry point passes no filter when the kind-filter
   parameter is absent or empty: its results are those of search(query). *)
C17_EmptyFilter ==
    \A i \in Inst :
        /\ NewIndex(i)
           => \A q \in Queries :
                LET unfiltered == Search(metadata[i], q, NoFilter)
                IN  /\ Search(metadata[i], q, TypeFilter({})) = unfiltered
                    /\ \A k \in 1..Len(metadata[i]) :
                          ContainsCI(SearchableText(metadata[i][k].value), q)
                          => HasResult(unfiltered, metadata[i][k].key)
        /\ (SearchFilesReturned(i) /\ AbsentOrEmpty(last.req.file_types))
           => /\ TypesList(last.req.file_types) = NoFilter
              /\ last.body.results = Search(metadata[i], last.req.query, NoFilter)
              /\ last.body.count = Len(last.body.results)

\* GET /search with an empty file_types parameter has returned the records
\* of two kinds that match its query
C17_Witness ==
    /\ SearchFilesReturned(1)
    /\ last.req.file_types = TextParam(<<>>)
    /\ last.req.query = <<"a">>
    /\ Len(last.body.results) = 2
    /\ last.body.results[1].file_type # last.body.results[2].file_type
    /\ Len(Search(metadata[1], <<"a">>, TypeFilter({}))) = 2

============================================================================
